---- MODULE Spec2Model ----
(***************************************************************************)
(* Model of traffic_cam_scraper/scrape_traffic_cams.py: one run of         *)
(* create_data_package (fetch -> probe -> transform -> archive).           *)
(*                                                                         *)
(* Text is a sequence of one-character strings, so that strip, lower,      *)
(* html.escape and urlparse are computed character by character.  An       *)
(* attribute mapping is a function whose DOMAIN is the set of keys present.*)
(* An optional value (Python None / a value) is a sequence of length 0/1.  *)
(***************************************************************************)
EXTENDS Integers, Sequences, FiniteSets, TLC

VARIABLES
    pc,               \* position of the coordinating flow in create_data_package
    directory,        \* what the remote endpoint serves for this run (environment)
    camera_list,      \* line 88
    futures,          \* executor.map: one future per submitted record (line 94)
    probes,           \* indices for which requests.get(stream_url) was called (line 43)
    collected,        \* indices consumed so far by list(executor.map(...))
    results,          \* line 94
    zip_contents,     \* line 96
    manifest_entries, \* line 97
    manifest_xml,     \* lines 114-125; <<>> until built
    zipf,             \* the file OUTPUT_PACKAGE on disk
    console,          \* everything print() wrote, in order
    next_uuid,        \* number of uuid.uuid4() calls made so far
    exc,              \* the exception raised in the coordinating flow, if any
    outcome           \* how create_data_package ended

vars == <<pc, directory, camera_list, futures, probes, collected, results,
          zip_contents, manifest_entries, manifest_xml, zipf, console,
          next_uuid, exc, outcome>>

-----------------------------------------------------------------------------
(* Bounds of the model *)

MaxCams == 3

(* Program constants *)

MAX_WORKERS == 8

OUTPUT_PACKAGE == "MD_Traffic_Cameras_Live.zip"

-----------------------------------------------------------------------------
(* Text helpers *)

Whitespace == {" ", "\t", "\n", "\r"}

UpperCase == <<"A","B","C","D","E","F","G","H","I","J","K","L","M",
               "N","O","P","Q","R","S","T","U","V","W","X","Y","Z">>
LowerCase == <<"a","b","c","d","e","f","g","h","i","j","k","l","m",
               "n","o","p","q","r","s","t","u","v","w","x","y","z">>

LowerChar(c) ==
    IF \E k \in DOMAIN UpperCase : UpperCase[k] = c
    THEN LowerCase[CHOOSE k \in DOMAIN UpperCase : UpperCase[k] = c]
    ELSE c

\* str.lower()
Lower(s) == [k \in DOMAIN s |-> LowerChar(s[k])]

RECURSIVE LStrip(_)
LStrip(s) == IF s # <<>> /\ Head(s) \in Whitespace THEN LStrip(Tail(s)) ELSE s

RECURSIVE RStrip(_)
RStrip(s) ==
    IF s # <<>> /\ s[Len(s)] \in Whitespace
    THEN RStrip(SubSeq(s, 1, Len(s) - 1))
    ELSE s

\* str.strip()
Strip(s) == RStrip(LStrip(s))

EscapeChar(c) ==
    CASE c = "&"  -> <<"&","a","m","p",";">>
      [] c = "<"  -> <<"&","l","t",";">>
      [] c = ">"  -> <<"&","g","t",";">>
      [] c = "\"" -> <<"&","q","u","o","t",";">>
      [] c = "'"  -> <<"&","#","x","2","7",";">>
      [] OTHER    -> <<c>>

\* html.escape(name) with quote=True
RECURSIVE Escape(_)
Escape(s) == IF s = <<>> THEN <<>> ELSE EscapeChar(Head(s)) \o Escape(Tail(s))

\* position of the first character of s at or after position k that lies in
\* stops, or Len(s) + 1
RECURSIVE FindFirst(_, _, _)
FindFirst(s, k, stops) ==
    IF k > Len(s) THEN Len(s) + 1
    ELSE IF s[k] \in stops THEN k
    ELSE FindFirst(s, k + 1, stops)

\* urllib.parse.urlparse(url), for the components lines 79 reads
urlparse(url) ==
    LET colon == FindFirst(url, 1, {":"})
        hasScheme == colon <= Len(url) /\ colon > 1
        rest == IF hasScheme THEN SubSeq(url, colon + 1, Len(url)) ELSE url
        hasNetloc == Len(rest) >= 2 /\ rest[1] = "/" /\ rest[2] = "/"
        netEnd == IF hasNetloc THEN FindFirst(rest, 3, {"/", "?", "#"}) ELSE 1
        pathEnd == FindFirst(rest, netEnd, {"?", "#"})
    IN  [scheme |-> IF hasScheme THEN Lower(SubSeq(url, 1, colon - 1)) ELSE <<>>,
         netloc |-> IF hasNetloc THEN SubSeq(rest, 3, netEnd - 1) ELSE <<>>,
         path   |-> SubSeq(rest, netEnd, pathEnd - 1)]

-----------------------------------------------------------------------------
(* get_real_name and check_camera *)

keys == <<"LOCATION_DESCRIPTION", "STATION_DESCRIPTION", "LABEL", "location">>

GenericName == <<"c","a","m","e","r","a">>

\* `val and str(val).strip() and str(val).lower() != 'camera'` (line 27)
Qualifies(attrs, key) ==
    /\ key \in DOMAIN attrs
    /\ attrs[key] # <<>>
    /\ Strip(attrs[key]) # <<>>
    /\ Lower(attrs[key]) # GenericName

\* attrs.get('ID', 'Unknown') (line 29)
FallbackNameId(attrs) ==
    IF "ID" \in DOMAIN attrs THEN attrs["ID"] ELSE <<"U","n","k","n","o","w","n">>

get_real_name(attrs) ==
    IF \E k \in DOMAIN keys : Qualifies(attrs, keys[k])
    THEN LET k == CHOOSE k \in DOMAIN keys :
                      /\ Qualifies(attrs, keys[k])
                      /\ \A j \in 1..(k - 1) : ~Qualifies(attrs, keys[j])
         IN  Strip(attrs[keys[k]])
    ELSE <<"C","a","m","e","r","a"," ">> \o FallbackNameId(attrs)

\* attrs.get('CCTV_ID') or attrs.get('ID') (line 34).  None and "" are both
\* rendered as <<>>: the only use of a falsy cam_id is `not cam_id`.
CamId(attrs) ==
    IF "CCTV_ID" \in DOMAIN attrs /\ attrs["CCTV_ID"] # <<>> THEN attrs["CCTV_ID"]
    ELSE IF "ID" \in DOMAIN attrs THEN attrs["ID"]
    ELSE <<>>

StreamPrefix ==
    <<"h","t","t","p","s",":","/","/","s","t","r","m","r","5",".","s","h","a",".",
      "m","a","r","y","l","a","n","d",".","g","o","v","/","r","t","p","l","i","v","e","/">>

StreamSuffix == <<"/","p","l","a","y","l","i","s","t",".","m","3","u","8">>

\* line 39
StreamUrl(cam_id) == StreamPrefix \o cam_id \o StreamSuffix

\* what requests.get(stream_url, timeout=5, ...) can do
Statuses == {200, 403, 404, 500, 503}
Transport == {"Timeout", "ConnectionError", "SSLError"}
ProbeOutcomes ==
    {[kind |-> "response", status |-> s] : s \in Statuses}
    \cup {[kind |-> k, status |-> 0] : k \in Transport}

\* a probe that accepts only success statuses
is_working_success_only(o) ==
    IF o.kind = "response" THEN o.status < 400 ELSE FALSE

\* lines 40-48
is_working(o) ==
    IF o.kind = "response" THEN o.status \notin {404, 503} ELSE FALSE

\* f"Checked: {name[:45]:<45} | Status: LIVE": the name cut to 45 characters,
\* printed in a field 45 wide
CheckedLine(name) ==
    [msg |-> "Checked", width |-> 45,
     name |-> SubSeq(name, 1, IF Len(name) < 45 THEN Len(name) ELSE 45)]

\* lines 52-54: the record returned for a live camera
LiveCam(cam) ==
    [attributes |-> cam.attributes, geometry |-> cam.geometry,
     clean_name |-> get_real_name(cam.attributes),
     stream_url |-> StreamUrl(CamId(cam.attributes))]

-----------------------------------------------------------------------------
(* The records the transformer produces (the fields the templates fill in) *)

\* an identifier generated once and reused
uuid4_reused(n) == ToString(1)

\* str(uuid.uuid4()): a value no earlier call of the run returned
uuid4(n) == ToString(n + 1)

\* f"{uid}/{uid}.cot"
CotPath(uid) == [dir |-> uid, file |-> uid, ext |-> "cot"]

ManifestPath == [dir |-> "MANIFEST", file |-> "manifest", ext |-> "xml"]

\* a sensor record whose __video element carries the sensor's own uid
create_cot_sensor_selfref(cam_uid, video_uid, name, lat, lon) ==
    [uid |-> cam_uid, type |-> "b-m-p-s-p-loc", lat |-> lat, lon |-> lon,
     callsign |-> Escape(name), video_uid |-> cam_uid]

create_cot_sensor(cam_uid, video_uid, name, lat, lon) ==
    [uid |-> cam_uid, type |-> "b-m-p-s-p-loc", lat |-> lat, lon |-> lon,
     callsign |-> Escape(name), video_uid |-> video_uid]

create_cot_video(video_uid, name, url) ==
    LET u == urlparse(url)
    IN  [uid |-> video_uid, type |-> "b-i-v", callsign |-> Escape(name),
         protocol |-> u.scheme, path |-> u.path, address |-> u.netloc,
         port |-> "443", entry_uid |-> video_uid, alias |-> Escape(name)]

\* lines 121-124: one <Content> element
ContentElement(entry) ==
    [zipEntry |-> entry.path, uid |-> entry.uid,
     contentType |-> IF entry.type = "Video" THEN "Video" ELSE ""]

-----------------------------------------------------------------------------
(* The directories a run may be served *)

CamA == [attributes |-> [CCTV_ID |-> <<"7">>, ID |-> <<"4","2">>,
                         LOCATION_DESCRIPTION |-> <<>>,
                         STATION_DESCRIPTION |-> <<" ","I","&","9","5">>],
         geometry |-> [x |-> -76, y |-> 39]]
CamB == [attributes |-> [ID |-> <<"4","2">>, LOCATION_DESCRIPTION |-> <<" ">>,
                         LABEL |-> <<"C","a","m","e","r","a">>],
         geometry |-> [x |-> -77, y |-> 38]]
CamC == [attributes |-> [CCTV_ID |-> <<"9">>, location |-> <<"c","a","m","e","r","a">>],
         geometry |-> [x |-> -75, y |-> 39]]
CamD == [attributes |-> [CCTV_ID |-> <<>>, LABEL |-> <<"R","t"," ","5","0","<","W",">">>],
         geometry |-> [x |-> -78, y |-> 39]]

CameraPool == {CamA, CamB, CamC, CamD}

\* the directory lists each camera once: every list of up to MaxCams distinct
\* records of the pool, in every order
FeatureLists ==
    UNION {{l \in [1..n -> CameraPool] : \A a, b \in 1..n : l[a] = l[b] => a = b} :
           n \in 0..MaxCams}

\* the parsed JSON body: with a features list, or without the field
Responses == {[features |-> l] : l \in FeatureLists} \cup {[error |-> "none"]}

FetchErrors == {"ConnectionError", "Timeout", "JSONDecodeError"}

WriteErrors == {"OSError"}

-----------------------------------------------------------------------------
Init ==
    /\ pc = "start"
    /\ directory \in Responses
    /\ camera_list = <<>>
    /\ futures = <<>>
    /\ probes = {}
    /\ collected = <<>>
    /\ results = <<>>
    /\ zip_contents = <<>>
    /\ manifest_entries = <<>>
    /\ manifest_xml = <<>>
    /\ zipf = [exists |-> FALSE, closed |-> FALSE, entries |-> <<>>]
    /\ console = <<>>
    /\ next_uuid = 0
    /\ exc = [at |-> "none", type |-> "none"]
    /\ outcome = "running"

\* line 85
Start ==
    /\ pc = "start"
    /\ console' = Append(console, [msg |-> "Fetching"])
    /\ pc' = "fetch"
    /\ UNCHANGED <<directory, camera_list, futures, probes, collected, results,
                   zip_contents, manifest_entries, manifest_xml, zipf,
                   next_uuid, exc, outcome>>

\* an except branch that reports the error and does not return
FetchFailContinues ==
    /\ pc = "fetch"
    /\ \E e \in FetchErrors :
          /\ exc' = [at |-> "fetch", type |-> e]
          /\ console' = Append(console, [msg |-> "Fetch Error", error |-> e])
    /\ pc' = "probe"
    /\ UNCHANGED <<directory, camera_list, futures, probes, collected, results,
                   zip_contents, manifest_entries, manifest_xml, zipf, next_uuid,
                   outcome>>

\* lines 86-90, the except branch: report and return
FetchFail ==
    /\ pc = "fetch"
    /\ \E e \in FetchErrors :
          /\ exc' = [at |-> "fetch", type |-> e]
          /\ console' = Append(console, [msg |-> "Fetch Error", error |-> e])
    /\ outcome' = "Abort"
    /\ pc' = "done"
    /\ UNCHANGED <<directory, camera_list, futures, probes, collected, results,
                   zip_contents, manifest_entries, manifest_xml, zipf, next_uuid>>

\* a fetch that returns at once when the feature list is empty
FetchOkShortCircuit ==
    /\ pc = "fetch"
    /\ LET l == IF "features" \in DOMAIN directory THEN directory.features ELSE <<>>
       IN  /\ camera_list' = l
           /\ futures' = [k \in DOMAIN l |-> [state |-> "pending", result |-> <<>>]]
           /\ IF l = <<>>
              THEN /\ console' = Append(console, [msg |-> "No cameras"])
                   /\ outcome' = "Abort"
                   /\ pc' = "done"
              ELSE /\ console' = Append(console, [msg |-> "Pinging", count |-> Len(l),
                                                  workers |-> MAX_WORKERS])
                   /\ pc' = "probe"
                   /\ UNCHANGED outcome
    /\ UNCHANGED <<directory, probes, collected, results, zip_contents,
                   manifest_entries, manifest_xml, zipf, next_uuid, exc>>

\* lines 86-88 and 92-93: the list is read, announced and submitted to the pool
FetchOk ==
    /\ pc = "fetch"
    /\ LET l == IF "features" \in DOMAIN directory THEN directory.features ELSE <<>>
       IN  /\ camera_list' = l
           /\ console' = Append(console, [msg |-> "Pinging", count |-> Len(l),
                                          workers |-> MAX_WORKERS])
           /\ futures' = [k \in DOMAIN l |-> [state |-> "pending", result |-> <<>>]]
    /\ pc' = "probe"
    /\ UNCHANGED <<directory, probes, collected, results, zip_contents,
                   manifest_entries, manifest_xml, zipf, next_uuid, exc, outcome>>

-----------------------------------------------------------------------------
(* The probe stage: executor.map(check_camera, camera_list) *)

Running == {k \in DOMAIN futures : futures[k].state = "probing"}

\* the work queue is first-in first-out: the next task is the lowest pending one
NextPending ==
    IF \E k \in DOMAIN futures : futures[k].state = "pending"
    THEN CHOOSE k \in DOMAIN futures :
             /\ futures[k].state = "pending"
             /\ \A j \in 1..(k - 1) : futures[j].state # "pending"
    ELSE 0

\* a check_camera without the guard of line 37
ReturnsEarlyNever(cam) == FALSE

\* lines 33-37: a record without identifier returns None before any request
ReturnsEarly(cam) == CamId(cam.attributes) = <<>>

\* a free worker takes the next task and runs check_camera up to the request
\* (lines 33-43)
TaskStart ==
    /\ pc = "probe"
    /\ NextPending # 0
    /\ Cardinality(Running) < MAX_WORKERS
    /\ LET i == NextPending
           cam == camera_list[i]
       IN  IF ReturnsEarly(cam)
           THEN /\ futures' = [futures EXCEPT ![i] = [state |-> "done", result |-> <<>>]]
                /\ UNCHANGED probes
           ELSE /\ futures' = [futures EXCEPT ![i].state = "probing"]
                /\ probes' = probes \cup
                       {[index |-> i, url |-> StreamUrl(CamId(cam.attributes))]}
    /\ UNCHANGED <<pc, directory, camera_list, collected, results, zip_contents,
                   manifest_entries, manifest_xml, zipf, console, next_uuid,
                   exc, outcome>>

\* a check_camera without the except clause of line 47: a transport error
\* leaves the worker and is re-raised by executor.map in the coordinating flow
ProbeReturnPropagates(i, o) ==
    /\ pc = "probe"
    /\ i \in Running
    /\ IF o.kind # "response"
       THEN /\ futures' = [futures EXCEPT ![i] =
                   [state |-> "done", result |-> <<>>, response |-> o]]
            /\ exc' = [at |-> "probe", type |-> o.kind]
            /\ outcome' = "Raised"
            /\ pc' = "done"
            /\ UNCHANGED <<console, camera_list>>
       ELSE /\ IF is_working(o)
               THEN /\ console' = Append(console,
                                      CheckedLine(get_real_name(camera_list[i].attributes)))
                    /\ camera_list' = [camera_list EXCEPT ![i] = LiveCam(camera_list[i])]
                    /\ futures' = [futures EXCEPT ![i] =
                           [state |-> "done", result |-> <<LiveCam(camera_list[i])>>,
                            response |-> o]]
               ELSE /\ futures' = [futures EXCEPT ![i] =
                           [state |-> "done", result |-> <<>>, response |-> o]]
                    /\ UNCHANGED <<console, camera_list>>
            /\ UNCHANGED <<pc, exc, outcome>>
    /\ UNCHANGED <<directory, probes, collected, results, zip_contents,
                   manifest_entries, manifest_xml, zipf, next_uuid>>

\* lines 44-55: the request of task i ends with outcome o
ProbeReturn(i, o) ==
    /\ pc = "probe"
    /\ i \in Running
    /\ IF is_working(o)
       THEN /\ console' = Append(console, CheckedLine(get_real_name(camera_list[i].attributes)))
            /\ camera_list' = [camera_list EXCEPT ![i] = LiveCam(camera_list[i])]
            /\ futures' = [futures EXCEPT ![i] =
                   [state |-> "done", result |-> <<LiveCam(camera_list[i])>>, response |-> o]]
       ELSE /\ futures' = [futures EXCEPT ![i] =
                   [state |-> "done", result |-> <<>>, response |-> o]]
            /\ UNCHANGED <<console, camera_list>>
    /\ UNCHANGED <<pc, directory, probes, collected, results, zip_contents,
                   manifest_entries, manifest_xml, zipf, next_uuid, exc, outcome>>

\* results taken in the order the tasks finish (as_completed)
NextIndexAsCompleted ==
    LET taken == {collected[k] : k \in DOMAIN collected}
        ready == {k \in DOMAIN futures : futures[k].state = "done" /\ k \notin taken}
    IN  IF ready # {} THEN CHOOSE k \in ready : TRUE ELSE Len(futures) + 1

\* executor.map yields the results in the order the tasks were submitted
NextIndex == Len(collected) + 1

\* list(...) takes the next result once its task is finished
Collect ==
    /\ pc = "probe"
    /\ NextIndex \in DOMAIN futures
    /\ futures[NextIndex].state = "done"
    /\ collected' = Append(collected, NextIndex)
    /\ UNCHANGED <<pc, directory, camera_list, futures, probes, results,
                   zip_contents, manifest_entries, manifest_xml, zipf, console,
                   next_uuid, exc, outcome>>

\* [c for c in ... if c]
RECURSIVE KeepTruthy(_)
KeepTruthy(idx) ==
    IF idx = <<>> THEN <<>>
    ELSE futures[Head(idx)].result \o KeepTruthy(Tail(idx))

\* line 94 completes once every result has been taken
FilterResults ==
    /\ pc = "probe"
    /\ Len(collected) = Len(futures)
    /\ results' = KeepTruthy(collected)
    /\ pc' = "transform"
    /\ UNCHANGED <<directory, camera_list, futures, probes, collected,
                   zip_contents, manifest_entries, manifest_xml, zipf, console,
                   next_uuid, exc, outcome>>

-----------------------------------------------------------------------------
(* Transform and manifest *)

\* one iteration of the loop of lines 99-111
TransformStep ==
    /\ pc = "transform"
    /\ Len(zip_contents) \div 2 < Len(results)
    /\ LET cam == results[Len(zip_contents) \div 2 + 1]
           lon == cam.geometry.x
           lat == cam.geometry.y
           name == cam.clean_name
           s_uid == uuid4(next_uuid)
           v_uid == uuid4(next_uuid + 1)
           s_path == CotPath(s_uid)
           v_path == CotPath(v_uid)
       IN  /\ zip_contents' = zip_contents \o
                 << [path |-> s_path, data |-> create_cot_sensor(s_uid, v_uid, name, lat, lon)],
                    [path |-> v_path, data |-> create_cot_video(v_uid, name, cam.stream_url)] >>
           /\ manifest_entries' = manifest_entries \o
                 << [path |-> s_path, uid |-> s_uid, type |-> "Sensor"],
                    [path |-> v_path, uid |-> v_uid, type |-> "Video"] >>
    /\ next_uuid' = next_uuid + 2
    /\ UNCHANGED <<pc, directory, camera_list, futures, probes, collected, results,
                   manifest_xml, zipf, console, exc, outcome>>

\* lines 114-125
BuildManifest ==
    /\ pc = "transform"
    /\ Len(zip_contents) \div 2 >= Len(results)
    /\ manifest_xml' = << [type |-> "MissionPackageManifest",
                           uid |-> uuid4(next_uuid),
                           name |-> "MD_Traffic_Live_DataPackage",
                           contents |-> [k \in DOMAIN manifest_entries |->
                                            ContentElement(manifest_entries[k])]] >>
    /\ next_uuid' = next_uuid + 1
    /\ pc' = "open"
    /\ UNCHANGED <<directory, camera_list, futures, probes, collected, results,
                   zip_contents, manifest_entries, zipf, console, exc, outcome>>

-----------------------------------------------------------------------------
(* The archive *)

\* line 128: mode 'w' creates or truncates the file
OpenZip ==
    /\ pc = "open"
    /\ zipf' = [exists |-> TRUE, closed |-> FALSE, entries |-> <<>>]
    /\ pc' = "write_manifest"
    /\ UNCHANGED <<directory, camera_list, futures, probes, collected, results,
                   zip_contents, manifest_entries, manifest_xml, console,
                   next_uuid, exc, outcome>>

\* line 129
WriteManifest ==
    /\ pc = "write_manifest"
    /\ zipf' = [zipf EXCEPT !.entries =
                   Append(@, [path |-> ManifestPath, data |-> manifest_xml[1]])]
    /\ pc' = "write_records"
    /\ UNCHANGED <<directory, camera_list, futures, probes, collected, results,
                   zip_contents, manifest_entries, manifest_xml, console,
                   next_uuid, exc, outcome>>

\* one iteration of the loop of lines 130-131
WriteRecord ==
    /\ pc = "write_records"
    /\ Len(zipf.entries) <= Len(zip_contents)
    /\ zipf' = [zipf EXCEPT !.entries = Append(@, zip_contents[Len(zipf.entries)])]
    /\ UNCHANGED <<pc, directory, camera_list, futures, probes, collected, results,
                   zip_contents, manifest_entries, manifest_xml, console,
                   next_uuid, exc, outcome>>

\* the with block ends normally and line 133 prints the summary
CloseAndReport ==
    /\ pc = "write_records"
    /\ Len(zipf.entries) > Len(zip_contents)
    /\ zipf' = [zipf EXCEPT !.closed = TRUE]
    /\ console' = Append(console, [msg |-> "SUCCESS", package |-> OUTPUT_PACKAGE,
                                   count |-> Len(results)])
    /\ outcome' = "Success"
    /\ pc' = "done"
    /\ UNCHANGED <<directory, camera_list, futures, probes, collected, results,
                   zip_contents, manifest_entries, manifest_xml, next_uuid, exc>>

\* lines 128-131 are not inside any try: an exception raised by ZipFile(...),
\* writestr or the closing of the archive leaves create_data_package
WriteFail ==
    /\ pc \in {"open", "write_manifest", "write_records"}
    /\ \E e \in WriteErrors : exc' = [at |-> "write", type |-> e]
    /\ zipf' = IF pc = "open" THEN zipf ELSE [zipf EXCEPT !.closed = TRUE]
    /\ outcome' = "Raised"
    /\ pc' = "done"
    /\ UNCHANGED <<directory, camera_list, futures, probes, collected, results,
                   zip_contents, manifest_entries, manifest_xml, console, next_uuid>>

-----------------------------------------------------------------------------
Next ==
    \/ Start
    \/ FetchFail
    \/ FetchOk
    \/ TaskStart
    \/ \E i \in 1..(MaxCams + 1), o \in ProbeOutcomes : ProbeReturn(i, o)
    \/ Collect
    \/ FilterResults
    \/ TransformStep
    \/ BuildManifest
    \/ OpenZip
    \/ WriteManifest
    \/ WriteRecord
    \/ CloseAndReport
    \/ WriteFail

Spec == Init /\ [][Next]_vars

-----------------------------------------------------------------------------
(* Vocabulary of the properties, stated on the served directory and on what *)
(* each probe answered                                                      *)

\* the feature list the endpoint served
DirList == IF "features" \in DOMAIN directory THEN directory.features ELSE <<>>

\* neither CCTV_ID nor ID is present with a non-empty value
LacksIdentifier(cam) ==
    \A key \in {"CCTV_ID", "ID"} :
        key \notin DOMAIN cam.attributes \/ cam.attributes[key] = <<>>

\* primary identifier, else fallback identifier
ResolvedIdentifier(cam) ==
    IF "CCTV_ID" \in DOMAIN cam.attributes /\ cam.attributes["CCTV_ID"] # <<>>
    THEN cam.attributes["CCTV_ID"]
    ELSE cam.attributes["ID"]

\* 404, 503 or a transport-level exception
ProbeDead(o) == o.kind \in {"Timeout", "ConnectionError", "SSLError"} \/ o.status \in {404, 503}

Probed(i) == i \in DOMAIN futures /\ "response" \in DOMAIN futures[i]

PassedProbe(i) ==
    /\ ~LacksIdentifier(DirList[i])
    /\ Probed(i)
    /\ ~ProbeDead(futures[i].response)

\* the directory list with the non-live and identifier-less records removed
RECURSIVE SurvivorsUpTo(_)
SurvivorsUpTo(n) ==
    IF n = 0 THEN <<>>
    ELSE SurvivorsUpTo(n - 1) \o (IF PassedProbe(n) THEN <<DirList[n]>> ELSE <<>>)

Survivors == SurvivorsUpTo(Len(DirList))

Base(cam) == [attributes |-> cam.attributes, geometry |-> cam.geometry]

PlaylistPath(cam) ==
    <<"/","r","t","p","l","i","v","e","/">> \o ResolvedIdentifier(cam)
        \o <<"/","p","l","a","y","l","i","s","t",".","m","3","u","8">>

ProbeStageOver == pc \in {"transform", "open", "write_manifest", "write_records", "done"}
                  /\ exc.at # "fetch"

TransformOver == pc \in {"open", "write_manifest", "write_records", "done"}
                 /\ exc.at # "fetch"

LastLine == console[Len(console)]

-----------------------------------------------------------------------------
\* C1: whatever the completion order of the probes, the live cameras handed to
\* the transformer are the directory list with the non-live and identifier-less
\* records removed, in directory order, and the sensor/video record pairs and
\* the manifest entries follow that same order.
C1_OrderPreserved ==
    ProbeStageOver =>
      LET live == Survivors
      IN
        /\ [k \in DOMAIN results |-> Base(results[k])] = live
        /\ \A k \in DOMAIN results :
              2 * k <= Len(zip_contents) =>
                 /\ zip_contents[2 * k - 1].data.type = "b-m-p-s-p-loc"
                 /\ zip_contents[2 * k - 1].data.lon = live[k].geometry.x
                 /\ zip_contents[2 * k - 1].data.lat = live[k].geometry.y
                 /\ zip_contents[2 * k].data.type = "b-i-v"
                 /\ zip_contents[2 * k].data.path = PlaylistPath(live[k])
                 /\ manifest_entries[2 * k - 1].path = zip_contents[2 * k - 1].path
                 /\ manifest_entries[2 * k - 1].type = "Sensor"
                 /\ manifest_entries[2 * k].path = zip_contents[2 * k].path
                 /\ manifest_entries[2 * k].type = "Video"
        /\ TransformOver => Len(zip_contents) = 2 * Len(results)

\* three records served, the middle one dropped, and the last one's probe
\* answered before the first one's
C1_Witness ==
    /\ outcome = "Success"
    /\ Len(DirList) = 3
    /\ Len(results) = 2
    /\ ~PassedProbe(2)
    /\ \E a, b \in DOMAIN console :
          /\ a < b
          /\ console[a] = CheckedLine(results[2].clean_name)
          /\ console[b] = CheckedLine(results[1].clean_name)
          /\ console[a] # console[b]

\* C2: for a record with an identifier, status 404 or 503 or a transport
\* exception gives None; every other outcome (200, 403, 500, ...) gives the
\* record back with clean_name and stream_url set.
C2_Classification ==
    \A i \in DOMAIN futures :
        (futures[i].state = "done" /\ ~LacksIdentifier(DirList[i])) =>
            /\ Probed(i)
            /\ IF ProbeDead(futures[i].response)
               THEN futures[i].result = <<>>
               ELSE /\ Len(futures[i].result) = 1
                    /\ Base(futures[i].result[1]) = DirList[i]
                    /\ DOMAIN futures[i].result[1] =
                          {"attributes", "geometry", "clean_name", "stream_url"}
                    /\ futures[i].result[1].clean_name # <<>>
                    /\ futures[i].result[1].stream_url # <<>>

\* one probe answered 500 and its record is live, one 403 and live, one met a
\* TLS error and was dropped
C2_Witness ==
    /\ \E i \in DOMAIN futures :
          Probed(i) /\ futures[i].response.status = 500 /\ futures[i].result # <<>>
    /\ \E i \in DOMAIN futures :
          Probed(i) /\ futures[i].response.status = 403 /\ futures[i].result # <<>>
    /\ \E i \in DOMAIN futures :
          Probed(i) /\ futures[i].response.kind = "SSLError" /\ futures[i].result = <<>>

\* C3: after the transform stage every live camera has exactly two generated
\* records (sensor, video) and two manifest entries (Sensor, Video), and the
\* video uid inside the sensor record's __video element is the uid of the
\* paired video record, of its manifest entry and of its archive path.
C3_PairLinked ==
    TransformOver =>
        /\ Len(zip_contents) = 2 * Len(results)
        /\ Len(manifest_entries) = 2 * Len(results)
        /\ \A k \in DOMAIN results :
              LET sensor == zip_contents[2 * k - 1]
                  video == zip_contents[2 * k]
              IN  /\ sensor.data.type = "b-m-p-s-p-loc"
                  /\ video.data.type = "b-i-v"
                  /\ manifest_entries[2 * k - 1].type = "Sensor"
                  /\ manifest_entries[2 * k].type = "Video"
                  /\ manifest_entries[2 * k - 1].uid = sensor.data.uid
                  /\ sensor.data.video_uid = video.data.uid
                  /\ sensor.data.video_uid = video.data.entry_uid
                  /\ sensor.data.video_uid = manifest_entries[2 * k].uid
                  /\ video.path = [dir |-> sensor.data.video_uid,
                                   file |-> sensor.data.video_uid, ext |-> "cot"]
                  /\ manifest_entries[2 * k].path = video.path
                  /\ sensor.data.uid # video.data.uid
                  \* no other record is linked to this video
                  /\ \A j \in DOMAIN zip_contents :
                        (j # 2 * k - 1 /\ zip_contents[j].data.type = "b-m-p-s-p-loc")
                            => zip_contents[j].data.video_uid # video.data.uid

C3_Witness ==
    /\ TransformOver
    /\ Len(results) = 2
    /\ zip_contents[3].data.video_uid = zip_contents[4].data.uid

\* C4 as amended: a failed directory fetch ends the run with no probe issued
\* and no archive file, and the console holds the "Fetching" banner followed
\* by the fetch-error message and nothing else.
C4_FetchFailureAborts ==
    exc.at = "fetch" =>
        /\ pc = "done"
        /\ outcome = "Abort"
        /\ probes = {}
        /\ futures = <<>>
        /\ ~zipf.exists
        /\ zipf.entries = <<>>
        /\ Len(console) = 2
        /\ console[1] = [msg |-> "Fetching"]
        /\ console[2] = [msg |-> "Fetch Error", error |-> exc.type]

C4_Witness ==
    /\ exc = [at |-> "fetch", type |-> "JSONDecodeError"]
    /\ outcome = "Abort"

\* C4 as stated: ... and the fetch-error message is the only console output
\* of the run.
C4_OnlyOutputIsFetchError ==
    exc.at = "fetch" =>
        /\ pc = "done"
        /\ probes = {}
        /\ ~zipf.exists
        /\ zipf.entries = <<>>
        /\ console = << [msg |-> "Fetch Error", error |-> exc.type] >>

\* C5: a failure while writing the archive ends the run in the Abort outcome,
\* reported by an error message printed where it occurs, without the success
\* summary and without the exception leaving create_data_package.
C5_WriteFailureHandled ==
    exc.at = "write" =>
        /\ outcome = "Abort"
        /\ console # <<>>
        /\ LastLine.msg \in {"Write Error", "Error"}
        /\ \A k \in DOMAIN console : console[k].msg # "SUCCESS"

\* C6: a record lacking both CCTV_ID and ID (absent or empty) is never probed
\* and never appears among the live cameras, the generated records, the
\* manifest or the archive.
C6_NoIdentifierNoProbe ==
    /\ \A p \in probes : ~LacksIdentifier(DirList[p.index])
    /\ \A i \in DOMAIN futures :
          LacksIdentifier(DirList[i]) => futures[i].result = <<>> /\ ~Probed(i)
    /\ \A k \in DOMAIN results : ~LacksIdentifier(results[k])
    /\ \A k \in DOMAIN zip_contents :
          \/ /\ zip_contents[k].data.type = "b-m-p-s-p-loc"
             /\ \E i \in DOMAIN DirList :
                   /\ ~LacksIdentifier(DirList[i])
                   /\ zip_contents[k].data.lon = DirList[i].geometry.x
                   /\ zip_contents[k].data.lat = DirList[i].geometry.y
          \/ /\ zip_contents[k].data.type = "b-i-v"
             /\ \E i \in DOMAIN DirList :
                   /\ ~LacksIdentifier(DirList[i])
                   /\ zip_contents[k].data.path = PlaylistPath(DirList[i])
    /\ \A k \in DOMAIN manifest_entries :
          \E j \in DOMAIN zip_contents : zip_contents[j].path = manifest_entries[k].path
    /\ \A k \in DOMAIN zipf.entries :
          \/ zipf.entries[k].path = ManifestPath
          \/ \E j \in DOMAIN zip_contents : zip_contents[j] = zipf.entries[k]

\* a successful run over a directory holding a record without identifier next
\* to a live one
C6_Witness ==
    /\ outcome = "Success"
    /\ \E i \in DOMAIN DirList : LacksIdentifier(DirList[i]) /\ futures[i].state = "done"
    /\ \E i \in DOMAIN DirList : PassedProbe(i)
    /\ Len(zipf.entries) >= 3

\* the name as C7 describes it
ClaimedName(cam) ==
    LET a == cam.attributes
        good(key) == /\ key \in DOMAIN a
                     /\ Strip(a[key]) # <<>>
                     /\ Lower(a[key]) # <<"c","a","m","e","r","a">>
    IN  IF good("LOCATION_DESCRIPTION") THEN Strip(a["LOCATION_DESCRIPTION"])
        ELSE IF good("STATION_DESCRIPTION") THEN Strip(a["STATION_DESCRIPTION"])
        ELSE IF good("LABEL") THEN Strip(a["LABEL"])
        ELSE IF good("location") THEN Strip(a["location"])
        ELSE <<"C","a","m","e","r","a"," ">> \o ResolvedIdentifier(cam)

\* C7: the name is the trimmed value of the first qualifying candidate field,
\* else "Camera <id>" with the identifier resolved for the probe (primary,
\* else fallback).
C7_NameFromResolvedIdentifier ==
    \A i \in DOMAIN futures :
        futures[i].result # <<>> =>
            futures[i].result[1].clean_name = ClaimedName(DirList[i])

\* C8: within the probe stage a step settles at most one camera, never alters
\* a camera already settled, settles a probed camera by its own answer alone,
\* and never ends the run; the stage hands over exactly the cameras whose own
\* probe passed.
C8_ProbeIsolation ==
    [][ pc = "probe" =>
          /\ pc' \in {"probe", "transform"}
          /\ outcome' = "running"
          /\ exc' = exc
          /\ DOMAIN futures' = DOMAIN futures
          /\ \A j \in DOMAIN futures :
                futures[j].state = "done" => futures'[j] = futures[j]
          /\ \A j, k \in DOMAIN futures :
                (futures'[j] # futures[j] /\ futures'[k] # futures[k]) => j = k
          /\ \A j \in DOMAIN futures :
                (futures'[j].state = "done" /\ "response" \in DOMAIN futures'[j]) =>
                    (futures'[j].result = <<>>) = ProbeDead(futures'[j].response)
          /\ pc' = "transform" =>
                Len(results') = Cardinality({j \in DOMAIN futures : futures[j].result # <<>>})
      ]_vars

\* a run in which one probe timed out, one was refused with 503, and the third
\* camera still made it into a written archive
C8_Witness ==
    /\ outcome = "Success"
    /\ \E i \in DOMAIN futures : Probed(i) /\ futures[i].response.kind = "Timeout"
    /\ \E i \in DOMAIN futures : Probed(i) /\ futures[i].response.status = 503
    /\ Len(results) = 1
    /\ Len(zipf.entries) = 3

\* C9: a run that ends in Success with N live cameras wrote one manifest at
\* MANIFEST/manifest.xml and 2N record files at pairwise distinct paths (one
\* sensor, one video per live camera); the manifest lists exactly those paths,
\* with the content-kind marker on exactly the N video entries; the summary
\* reports N.
C9_SuccessArchive ==
    outcome = "Success" =>
        LET N == Len(Survivors)
            e == zipf.entries
            m == e[1].data
        IN  /\ zipf.exists /\ zipf.closed
            /\ Len(e) = 2 * N + 1
            /\ e[1].path = [dir |-> "MANIFEST", file |-> "manifest", ext |-> "xml"]
            /\ \A a, b \in DOMAIN e : e[a].path = e[b].path => a = b
            /\ Cardinality({k \in DOMAIN e : e[k].data.type = "b-m-p-s-p-loc"}) = N
            /\ Cardinality({k \in DOMAIN e : e[k].data.type = "b-i-v"}) = N
            /\ Len(m.contents) = 2 * N
            /\ \A k \in DOMAIN m.contents :
                  /\ m.contents[k].zipEntry = e[k + 1].path
                  /\ m.contents[k].uid = e[k + 1].data.uid
                  /\ (m.contents[k].contentType = "Video") = (e[k + 1].data.type = "b-i-v")
                  /\ m.contents[k].contentType \in {"Video", ""}
            /\ LastLine.msg = "SUCCESS"
            /\ LastLine.count = N

\* three features served, two live
C9_Witness ==
    /\ outcome = "Success"
    /\ Len(DirList) = 3
    /\ Len(Survivors) = 2
    /\ Len(zipf.entries) = 5
    /\ LastLine.count = 2

\* C10: with an empty feature list (or no features field) no probe is issued
\* and the run is not cut short: once it has ended without a write failure it
\* has ended in Success, with an archive holding only a manifest without
\* Content entries and a reported count of 0.
C10_EmptyDirectory ==
    (DirList = <<>> /\ pc \notin {"start", "fetch"} /\ exc.at # "fetch") =>
        /\ probes = {}
        /\ futures = <<>>
        /\ results = <<>>
        /\ zip_contents = <<>>
        /\ outcome \in {"running", "Success", "Raised"}
        /\ outcome = "Raised" => exc.at = "write"
        /\ (pc = "done" /\ exc.at = "none") =>
              /\ outcome = "Success"
              /\ zipf.exists
              /\ Len(zipf.entries) = 1
              /\ zipf.entries[1].path = [dir |-> "MANIFEST", file |-> "manifest", ext |-> "xml"]
              /\ zipf.entries[1].data.contents = <<>>
              /\ LastLine.msg = "SUCCESS"
              /\ LastLine.count = 0

C10_Witness ==
    /\ outcome = "Success"
    /\ directory = [features |-> <<>>]
    /\ Len(zipf.entries) = 1
====
